---- MODULE Spec2Model ----
(***************************************************************************)
(* Model of webscraping/fedora.py: the glibc pipeline                      *)
(*   crawl -> resolve -> download -> extract -> gadgets -> cleanup.        *)
(* Strings are TLA+ strings; a character is a substring of length one.     *)
(***************************************************************************)
EXTENDS Integers, Sequences, FiniteSets, TLC

(***************************************************************************)
(* String primitives (Python str operations used by the source).           *)
(***************************************************************************)
Ch(s, i) == SubSeq(s, i, i)

\* s[i:i+len(p)] == p
HasAt(s, i, p) == /\ i >= 1
                  /\ i + Len(p) - 1 <= Len(s)
                  /\ SubSeq(s, i, i + Len(p) - 1) = p

\* p in s
Contains(s, p) == \E i \in 1..(Len(s) + 1) : HasAt(s, i, p)

\* s.endswith(p)
EndsWith(s, p) == Len(p) <= Len(s) /\ HasAt(s, Len(s) - Len(p) + 1, p)

\* s.startswith(p)
StartsWith(s, p) == HasAt(s, 1, p)

\* index of the first occurrence of p in s at or after i, 0 when there is none
FindFrom(s, p, i) ==
    IF \E j \in i..Len(s) : HasAt(s, j, p)
    THEN CHOOSE j \in i..Len(s) :
             HasAt(s, j, p) /\ \A k \in i..(j - 1) : ~HasAt(s, k, p)
    ELSE 0

\* index of the last occurrence of p in s at or before i, 0 when there is none
RFindFrom(s, p, i) ==
    IF \E j \in 1..i : HasAt(s, j, p)
    THEN CHOOSE j \in 1..i :
             HasAt(s, j, p) /\ \A k \in (j + 1)..i : ~HasAt(s, k, p)
    ELSE 0

Digits == <<"0", "1", "2", "3", "4", "5", "6", "7", "8", "9">>

IsDigit(c) == \E k \in 1..10 : Digits[k] = c

DigitVal(c) == (CHOOSE k \in 1..10 : Digits[k] = c) - 1

\* \d* : the first index at or after i that does not hold a digit
DigitEnd(s, i) ==
    IF i > Len(s) THEN i
    ELSE CHOOSE j \in i..(Len(s) + 1) :
             /\ j > Len(s) \/ ~IsDigit(Ch(s, j))
             /\ \A k \in i..(j - 1) : IsDigit(Ch(s, k))

\* int(s) for a string of decimal digits
RECURSIVE StrToInt(_)
StrToInt(s) ==
    IF Len(s) = 0 THEN 0
    ELSE 10 * StrToInt(SubSeq(s, 1, Len(s) - 1)) + DigitVal(Ch(s, Len(s)))

\* str(n) for a natural number
RECURSIVE IntToStr(_)
IntToStr(n) ==
    IF n < 10 THEN Digits[n + 1]
    ELSE IntToStr(n \div 10) \o Digits[(n % 10) + 1]

UpperLetters == "ABCDEFGHIJKLMNOPQRSTUVWXYZ"
LowerLetters == "abcdefghijklmnopqrstuvwxyz"

LowerCh(c) ==
    IF \E k \in 1..26 : Ch(UpperLetters, k) = c
    THEN Ch(LowerLetters, CHOOSE k \in 1..26 : Ch(UpperLetters, k) = c)
    ELSE c

\* s.lower()
RECURSIVE Lower(_)
Lower(s) ==
    IF Len(s) = 0 THEN ""
    ELSE LowerCh(Ch(s, 1)) \o Lower(SubSeq(s, 2, Len(s)))

\* s.split(sep) for a one-character separator
RECURSIVE Split(_, _)
Split(s, sep) ==
    LET i == FindFrom(s, sep, 1) IN
    IF i = 0 THEN <<s>>
    ELSE <<SubSeq(s, 1, i - 1)>> \o Split(SubSeq(s, i + 1, Len(s)), sep)

\* s.replace(old, new), all occurrences, left to right
RECURSIVE Replace(_, _, _)
Replace(s, old, new) ==
    LET i == FindFrom(s, old, 1) IN
    IF i = 0 THEN s
    ELSE SubSeq(s, 1, i - 1) \o new
         \o Replace(SubSeq(s, i + Len(old), Len(s)), old, new)

\* os.path.basename(p)
Basename(p) ==
    LET i == RFindFrom(p, "/", Len(p)) IN SubSeq(p, i + 1, Len(p))

\* os.path.splitext(p)[0] for a file name that does not start with a dot
SplitextRoot(p) ==
    LET b == RFindFrom(p, "/", Len(p))
        i == RFindFrom(p, ".", Len(p))
    IN IF i > b + 1 THEN SubSeq(p, 1, i - 1) ELSE p

(***************************************************************************)
(* create_libc_filename                                                    *)
(***************************************************************************)
ValueError == "<ValueError>"

\* (?:\.\d+)* from index i: the index after the last repetition
RECURSIVE DotDigitsEnd(_, _)
DotDigitsEnd(s, i) ==
    IF HasAt(s, i, ".") /\ DigitEnd(s, i + 1) > i + 1
    THEN DotDigitsEnd(s, DigitEnd(s, i + 1))
    ELSE i

\* \d+\.\d+(?:\.\d+)* matched at index i: the index after the match, 0 if none
VersionTokenEnd(s, i) ==
    LET a == DigitEnd(s, i) IN
    IF a > i /\ HasAt(s, a, ".") /\ DigitEnd(s, a + 1) > a + 1
    THEN DotDigitsEnd(s, DigitEnd(s, a + 1))
    ELSE 0

\* re.search(version_pattern, s): <<start, end>> of the leftmost match
VersionSearch(s, i) ==
    IF \E j \in i..Len(s) : VersionTokenEnd(s, j) # 0
    THEN LET m == CHOOSE j \in i..Len(s) :
                      /\ VersionTokenEnd(s, j) # 0
                      /\ \A k \in i..(j - 1) : VersionTokenEnd(s, k) = 0
         IN <<m, VersionTokenEnd(s, m)>>
    ELSE <<0, 0>>

\* a variant that takes the release after the hyphen into the token
create_libc_filename_release(rpm_filename) ==
    LET m == VersionSearch(rpm_filename, 1) IN
    IF m[1] # 0
    THEN LET e == IF HasAt(rpm_filename, m[2], "-")
                     /\ DigitEnd(rpm_filename, m[2] + 1) > m[2] + 1
                  THEN DigitEnd(rpm_filename, m[2] + 1) ELSE m[2]
         IN "libc-" \o SubSeq(rpm_filename, m[1], e - 1) \o ".so"
    ELSE ValueError

create_libc_filename(rpm_filename) ==
    LET m == VersionSearch(rpm_filename, 1) IN
    IF m[1] # 0
    THEN "libc-" \o SubSeq(rpm_filename, m[1], m[2] - 1) \o ".so"
    ELSE ValueError

(***************************************************************************)
(* extract_rpm_urls_from_buildinfo                                         *)
(***************************************************************************)
target_architectures == <<"aarch64", "i686", "x86_64">>

excludes == <<"debuginfo", "debugsource", "devel", "headers", "static", "utils">>

\* a response is [ok, body]: ok is FALSE when requests.get or
\* raise_for_status raises RequestException; body is the page's anchors
FetchError == [ok |-> FALSE, body |-> <<>>]

Page(body) == [ok |-> TRUE, body |-> body]

\* glibc-\d+\.\d+-\d+\.fc\d+\.{arch}\.rpm matched at index i
MainPackageAt(href, i, arch) ==
    /\ HasAt(href, i, "glibc-")
    /\ LET a == DigitEnd(href, i + 6) IN
       /\ a > i + 6
       /\ HasAt(href, a, ".")
       /\ LET b == DigitEnd(href, a + 1) IN
          /\ b > a + 1
          /\ HasAt(href, b, "-")
          /\ LET c == DigitEnd(href, b + 1) IN
             /\ c > b + 1
             /\ HasAt(href, c, ".fc")
             /\ LET d == DigitEnd(href, c + 3) IN
                /\ d > c + 3
                /\ HasAt(href, d, "." \o arch \o ".rpm")

\* re.search(rf'glibc-\d+\.\d+-\d+\.fc\d+\.{arch}\.rpm', href)
MainPackageSearch(href, arch) ==
    \E i \in 1..Len(href) : MainPackageAt(href, i, arch)

\* a variant without the test of the excluded substrings
IsGlibcRpmLink_noexclude(href) ==
    /\ EndsWith(href, ".rpm")
    /\ Contains(href, "glibc-")

\* the condition of the outer if: an rpm link of glibc, no excluded substring
IsGlibcRpmLink(href) ==
    /\ EndsWith(href, ".rpm")
    /\ Contains(href, "glibc-")
    /\ ~ \E k \in 1..Len(excludes) : Contains(href, excludes[k])

\* rpm_urls is a dict in insertion order: a sequence of <<arch, href>>
HasKey(d, k) == \E i \in 1..Len(d) : d[i][1] = k

Lookup(d, k) == d[CHOOSE i \in 1..Len(d) : d[i][1] = k][2]

\* a variant in which a later link replaces the one already resolved
RECURSIVE ArchLoop_overwrite(_, _, _)
ArchLoop_overwrite(href, rpm_urls, k) ==
    IF k > Len(target_architectures) THEN rpm_urls
    ELSE IF /\ Contains(href, "/" \o target_architectures[k] \o "/")
            /\ MainPackageSearch(href, target_architectures[k])
         THEN IF HasKey(rpm_urls, target_architectures[k])
              THEN [i \in 1..Len(rpm_urls) |->
                       IF rpm_urls[i][1] = target_architectures[k]
                       THEN <<target_architectures[k], href>>
                       ELSE rpm_urls[i]]
              ELSE Append(rpm_urls, <<target_architectures[k], href>>)
         ELSE ArchLoop_overwrite(href, rpm_urls, k + 1)

\* for arch in target_architectures: ... break
RECURSIVE ArchLoop(_, _, _)
ArchLoop(href, rpm_urls, k) ==
    IF k > Len(target_architectures) THEN rpm_urls
    ELSE LET arch == target_architectures[k] IN
         IF /\ Contains(href, "/" \o arch \o "/")
            /\ ~HasKey(rpm_urls, arch)
            /\ MainPackageSearch(href, arch)
         THEN Append(rpm_urls, <<arch, href>>)
         ELSE ArchLoop(href, rpm_urls, k + 1)

\* for link in soup.find_all('a', href=True)
RECURSIVE LinkLoop(_, _, _)
LinkLoop(links, rpm_urls, n) ==
    IF n > Len(links) THEN rpm_urls
    ELSE LinkLoop(links,
                  IF IsGlibcRpmLink(links[n])
                  THEN ArchLoop(links[n], rpm_urls, 1)
                  ELSE rpm_urls,
                  n + 1)

\* response.body: the hrefs of the page's anchors in page order
extract_rpm_urls_from_buildinfo(response) ==
    IF ~response.ok THEN <<>> ELSE LinkLoop(response.body, <<>>, 1)

(***************************************************************************)
(* create_rop_gadgets: removal of the [LOAD] / [INFO] lines                *)
(***************************************************************************)
\* a variant without re.IGNORECASE
NoiseLine_casesensitive(line) ==
    Contains(line, "[LOAD]") \/ Contains(line, "[INFO]")

\* pattern.search(line), pattern = re.compile(r"\[LOAD\]|\[INFO\]", re.IGNORECASE)
NoiseLine(line) ==
    Contains(Lower(line), "[load]") \/ Contains(Lower(line), "[info]")

\* for line in lines: if not pattern.search(line): f.write(line)
RECURSIVE StripNoise(_)
StripNoise(lines) ==
    IF Len(lines) = 0 THEN <<>>
    ELSE (IF NoiseLine(Head(lines)) THEN <<>> ELSE <<Head(lines)>>)
         \o StripNoise(Tail(lines))

(***************************************************************************)
(* urllib.parse, for URLs whose query values need no percent-encoding      *)
(***************************************************************************)
\* urlparse(url): scheme://netloc path ?query #fragment
urlparse(url) ==
    LET h == FindFrom(url, "#", 1)
        nofrag == IF h = 0 THEN url ELSE SubSeq(url, 1, h - 1)
        q == FindFrom(nofrag, "?", 1)
        noquery == IF q = 0 THEN nofrag ELSE SubSeq(nofrag, 1, q - 1)
        c == FindFrom(noquery, "://", 1)
        rest == IF c = 0 THEN noquery ELSE SubSeq(noquery, c + 3, Len(noquery))
        sl == FindFrom(rest, "/", 1)
    IN [scheme   |-> IF c = 0 THEN "" ELSE SubSeq(noquery, 1, c - 1),
        netloc   |-> IF c = 0 THEN "" ELSE
                     IF sl = 0 THEN rest ELSE SubSeq(rest, 1, sl - 1),
        path     |-> IF c = 0 THEN noquery ELSE
                     IF sl = 0 THEN "" ELSE SubSeq(rest, sl, Len(rest)),
        query    |-> IF q = 0 THEN "" ELSE SubSeq(nofrag, q + 1, Len(nofrag)),
        fragment |-> IF h = 0 THEN "" ELSE SubSeq(url, h + 1, Len(url))]

\* parse_qs(query): a dict in insertion order, a sequence of <<name, values>>;
\* fields without "=" and fields with a blank value are dropped
RECURSIVE ParseFields(_, _, _)
ParseFields(fields, n, acc) ==
    IF n > Len(fields) THEN acc
    ELSE LET f == fields[n]
             e == FindFrom(f, "=", 1)
             name == SubSeq(f, 1, e - 1)
             value == SubSeq(f, e + 1, Len(f))
         IN IF e = 0 \/ Len(value) = 0 THEN ParseFields(fields, n + 1, acc)
            ELSE IF \E i \in 1..Len(acc) : acc[i][1] = name
            THEN ParseFields(fields, n + 1,
                     [i \in 1..Len(acc) |->
                         IF acc[i][1] = name
                         THEN <<name, Append(acc[i][2], value)>>
                         ELSE acc[i]])
            ELSE ParseFields(fields, n + 1, Append(acc, <<name, <<value>>>>))

parse_qs(query) == ParseFields(Split(query, "&"), 1, <<>>)

\* urlencode(query_params, doseq=True)
RECURSIVE JoinValues(_, _, _)
JoinValues(name, values, n) ==
    IF n > Len(values) THEN <<>>
    ELSE <<name \o "=" \o values[n]>> \o JoinValues(name, values, n + 1)

RECURSIVE EncodeFields(_, _)
EncodeFields(params, n) ==
    IF n > Len(params) THEN <<>>
    ELSE JoinValues(params[n][1], params[n][2], 1) \o EncodeFields(params, n + 1)

RECURSIVE Join(_, _)
Join(parts, sep) ==
    IF Len(parts) = 0 THEN ""
    ELSE IF Len(parts) = 1 THEN parts[1]
    ELSE parts[1] \o sep \o Join(Tail(parts), sep)

urlencode(params) == Join(EncodeFields(params, 1), "&")

\* urljoin, given b = urlparse(base)
JoinParsed(b, base, href) ==
    IF href = "" THEN base
    ELSE IF Contains(href, "://") THEN href
    ELSE IF StartsWith(href, "/") THEN b.scheme \o "://" \o b.netloc \o href
    ELSE IF StartsWith(href, "?")
         THEN b.scheme \o "://" \o b.netloc \o b.path \o href
    ELSE IF StartsWith(href, "#")
         THEN b.scheme \o "://" \o b.netloc \o b.path
              \o (IF b.query = "" THEN "" ELSE "?" \o b.query) \o href
    ELSE b.scheme \o "://" \o b.netloc
         \o SubSeq(b.path, 1, RFindFrom(b.path, "/", Len(b.path))) \o href

\* urljoin(base, href) for hrefs without "." or ".." path segments
urljoin(base, href) == JoinParsed(urlparse(base), base, href)

(***************************************************************************)
(* scrape_glibc_versions_from_page                                         *)
(***************************************************************************)
\* str.strip() for blanks
RECURSIVE Strip(_)
Strip(s) ==
    IF Len(s) > 0 /\ Ch(s, 1) = " " THEN Strip(SubSeq(s, 2, Len(s)))
    ELSE IF Len(s) > 0 /\ Ch(s, Len(s)) = " " THEN Strip(SubSeq(s, 1, Len(s) - 1))
    ELSE s

NoMatch == <<>>

\* pattern.match(link_text), pattern glibc-(\d+\.\d+)-(\d+)\.(fc\d+):
\* the groups <<version, release, disttag>>, or NoMatch
VersionMatch(link_text) ==
    LET a == DigitEnd(link_text, 7)
        b == DigitEnd(link_text, a + 1)
        c == DigitEnd(link_text, b + 1)
        d == DigitEnd(link_text, c + 3)
    IN IF /\ HasAt(link_text, 1, "glibc-")
          /\ a > 7 /\ HasAt(link_text, a, ".")
          /\ b > a + 1 /\ HasAt(link_text, b, "-")
          /\ c > b + 1 /\ HasAt(link_text, c, ".fc")
          /\ d > c + 3
       THEN <<SubSeq(link_text, 7, b - 1),
              SubSeq(link_text, b + 1, c - 1),
              SubSeq(link_text, c + 1, d - 1)>>
       ELSE NoMatch

\* re.search(r'buildID=(\d+)', href): group 1, or "" when there is no match
RECURSIVE BuildIdSearch(_, _)
BuildIdSearch(href, i) ==
    LET j == FindFrom(href, "buildID=", i) IN
    IF j = 0 THEN ""
    ELSE IF DigitEnd(href, j + 8) > j + 8
         THEN SubSeq(href, j + 8, DigitEnd(href, j + 8) - 1)
         ELSE BuildIdSearch(href, j + 1)

\* '>>>' in link_text or '>>' in link_text or 'Next' in link_text.lower()
IsNextLink(link_text) ==
    \/ Contains(link_text, ">>>")
    \/ Contains(link_text, ">>")
    \/ Contains(Lower(link_text), "Next")

\* what the two loops over the anchors compute from one anchor
ParseAnchor(a) ==
    [link_text |-> Strip(a.text),
     match |-> VersionMatch(Strip(a.text)),
     build_id |-> BuildIdSearch(a.href, 1),
     is_next |-> IsNextLink(Strip(a.text))]

Anchor(text, href) == [text |-> text, href |-> href]

\* the anchors the listing pages are made of
ListingAnchors ==
    { Anchor(" glibc-2.39-11.fc40 ", "buildinfo?buildID=2411"),
      Anchor("glibc-2.39-3.fc40", "buildinfo?buildID=2403"),
      Anchor("glibc-2.40-1.fc41", "buildinfo?buildID=2501"),
      Anchor("glibc-2.39-1.fc40", "taskinfo?taskID=77"),
      Anchor(">>>", "packageinfo?buildStart=50&packageID=57"),
      Anchor("<<< 1 >>", "packageinfo?buildStart=0&packageID=57"),
      Anchor("Next", "packageinfo?buildStart=0&packageID=57") }

\* ParseAnchor, computed once for each of these anchors
ParsedAnchors == [a \in ListingAnchors |-> ParseAnchor(a)]

Parsed(a) == IF a \in ListingAnchors THEN ParsedAnchors[a] ELSE ParseAnchor(a)

\* a variant that keeps the highest release
KeepsLower_highest(release, old) == release > old

\* release < version_dict[key]['release']
KeepsLower(release, old) == release < old

\* version_dict is a dict in insertion order: a sequence of <<key, info>>
StoreRow(version_dict, key, info) ==
    IF ~HasKey(version_dict, key) THEN Append(version_dict, <<key, info>>)
    ELSE IF KeepsLower(info.release, Lookup(version_dict, key).release)
         THEN [i \in 1..Len(version_dict) |->
                  IF version_dict[i][1] = key THEN <<key, info>>
                  ELSE version_dict[i]]
         ELSE version_dict

\* the body of the loop over the anchors, from anchor n on
RECURSIVE ScrapeLoop(_, _, _, _, _)
ScrapeLoop(anchors, n, url, found, version_dict) ==
    IF n > Len(anchors) THEN [found |-> found, dict |-> version_dict]
    ELSE LET link_text == Parsed(anchors[n]).link_text
             m == Parsed(anchors[n]).match
             build_id == Parsed(anchors[n]).build_id
         IN IF m = NoMatch
            THEN ScrapeLoop(anchors, n + 1, url, found, version_dict)
            ELSE IF build_id # "" /\ StartsWith(m[3], "fc")
            THEN ScrapeLoop(anchors, n + 1, url, TRUE,
                     StoreRow(version_dict, <<m[1], m[3]>>,
                              [release |-> StrToInt(m[2]),
                               build_id |-> build_id,
                               full_name |-> link_text,
                               source_url |-> url]))
            ELSE ScrapeLoop(anchors, n + 1, url, TRUE, version_dict)

\* response.body: the page's anchors (text, href) in page order
scrape_glibc_versions_from_page(response, url, version_dict) ==
    IF ~response.ok THEN [found |-> FALSE, dict |-> version_dict]
    ELSE ScrapeLoop(response.body, 1, url, FALSE, version_dict)

(***************************************************************************)
(* get_glibc_versions_all_pages: the next page URL                         *)
(***************************************************************************)
base_url == "https://koji.fedoraproject.org/koji/packageinfo?buildStart=0&packageID=57&buildOrder=-completion_time&tagOrder=name&tagStart=0#buildlist"

PageSize == 50

\* for link in pagination_links: ... break : the index of the anchor the loop
\* stops at, 0 when no anchor matches
RECURSIVE NextLinkLoop(_, _)
NextLinkLoop(anchors, n) ==
    IF n > Len(anchors) THEN 0
    ELSE IF Parsed(anchors[n]).is_next THEN n
    ELSE NextLinkLoop(anchors, n + 1)

\* query_params['buildStart'] = [str(next_start)]
SetBuildStart(query_params, next_start) ==
    [i \in 1..Len(query_params) |->
        IF query_params[i][1] = "buildStart"
        THEN <<"buildStart", <<IntToStr(next_start)>>>>
        ELSE query_params[i]]

\* the constructed URL, given parsed_url and query_params
Reconstruct(parsed_url, query_params) ==
    IF HasKey(query_params, "buildStart")
    THEN parsed_url.scheme \o "://" \o parsed_url.netloc \o parsed_url.path
         \o "?"
         \o urlencode(SetBuildStart(query_params,
                 StrToInt(Lookup(query_params, "buildStart")[1]) + PageSize))
         \o parsed_url.fragment
    ELSE Replace(base_url, "buildStart=0", "buildStart=50")

ParseQuery(parsed_url) == Reconstruct(parsed_url, parse_qs(parsed_url.query))

\* the constructed next page URL (lines 139-154)
SynthesizedNextUrl(current) == ParseQuery(urlparse(current))

\* next_url, given urljoin(current_url, href) for the hrefs of the page and
\* the constructed URL
NextPageUrl(anchors, joined, synthesized) ==
    LET n == NextLinkLoop(anchors, 1) IN
    IF n # 0 /\ joined[anchors[n].href] # "" THEN joined[anchors[n].href]
    ELSE synthesized

(***************************************************************************)
(* fetch_rpm_urls_all_versions: sort and flatten                           *)
(***************************************************************************)
CodePoints == "-.0123456789_abcdefghijklmnopqrstuvwxyz"

Ord(c) == CHOOSE k \in 1..Len(CodePoints) : Ch(CodePoints, k) = c

\* a < b for Python str
RECURSIVE StrLess(_, _)
StrLess(a, b) ==
    IF Len(b) = 0 THEN FALSE
    ELSE IF Len(a) = 0 THEN TRUE
    ELSE IF Ch(a, 1) = Ch(b, 1)
         THEN StrLess(SubSeq(a, 2, Len(a)), SubSeq(b, 2, Len(b)))
         ELSE Ord(Ch(a, 1)) < Ord(Ch(b, 1))

\* (x['version'], x['disttag']) < (y['version'], y['disttag'])
ItemLess(x, y) ==
    \/ StrLess(x.version, y.version)
    \/ x.version = y.version /\ StrLess(x.disttag, y.disttag)

\* insert x after every element that is not greater than it (stable)
RECURSIVE InsertSorted(_, _)
InsertSorted(sorted, x) ==
    IF Len(sorted) = 0 THEN <<x>>
    ELSE IF ItemLess(x, Head(sorted)) THEN <<x>> \o sorted
    ELSE <<Head(sorted)>> \o InsertSorted(Tail(sorted), x)

\* urls.sort(key=lambda x: (x['version'], x['disttag']))
RECURSIVE SortItems(_, _)
SortItems(items, n) ==
    IF n = 0 THEN <<>>
    ELSE InsertSorted(SortItems(items, n - 1), items[n])

\* for item in urls: for arch, rpm_url in item['rpm_urls'].items(): append
RECURSIVE Flatten(_)
Flatten(items) ==
    IF Len(items) = 0 THEN <<>>
    ELSE [i \in 1..Len(Head(items).rpm_urls) |-> Head(items).rpm_urls[i][2]]
         \o Flatten(Tail(items))

koji_url == "https://koji.fedoraproject.org/koji/"

(***************************************************************************)
(* Bounds and the pages the remote site may serve                          *)
(***************************************************************************)
MaxPages == 2
MaxAnchors == 2
MaxLinks == 2
MaxLines == 3
MaxSteps == 3

SeqsUpTo(S, n) == UNION {[1..k -> S] : k \in 0..n}

ListingResponses ==
    {FetchError} \cup {Page(b) : b \in SeqsUpTo(ListingAnchors, MaxAnchors)}

\* the hrefs of the anchors the next-link loop can stop at
NextHrefs == {a.href : a \in {x \in ListingAnchors : Parsed(x).is_next}}

\* the listing URLs a crawl can be at after at most k next pages
NextUrlsOf(prev) ==
    prev \cup {SynthesizedNextUrl(u) : u \in prev}
         \cup {urljoin(u, h) : u \in prev, h \in NextHrefs}

RECURSIVE ListingUrlsWithin(_)
ListingUrlsWithin(k) ==
    IF k = 0 THEN {base_url} ELSE NextUrlsOf(ListingUrlsWithin(k - 1))

ListingUrls == ListingUrlsWithin(MaxPages - 1)

\* SynthesizedNextUrl and urljoin, computed once for each of these URLs
SynthesizedOf == [u \in ListingUrls |-> SynthesizedNextUrl(u)]

JoinedOf == [u \in ListingUrls |-> [h \in NextHrefs |-> urljoin(u, h)]]

Kojipkgs == "https://kojipkgs.fedoraproject.org/"

RpmHref(prefix, dirarch, pkg, nvr, filearch) ==
    Kojipkgs \o prefix \o "/" \o dirarch \o "/" \o pkg \o "-" \o nvr \o "."
    \o filearch \o ".rpm"

MainX86 == RpmHref("packages/glibc/2.39/3.fc40", "x86_64", "glibc", "2.39-3.fc40", "x86_64")
MainI686 == RpmHref("packages/glibc/2.39/3.fc40", "i686", "glibc", "2.39-3.fc40", "i686")
MainAarch64 == RpmHref("packages/glibc/2.40/1.fc41", "aarch64", "glibc", "2.40-1.fc41", "aarch64")
DevelX86 == RpmHref("packages/glibc/2.39/3.fc40", "x86_64", "glibc-devel", "2.39-3.fc40", "x86_64")

\* the detail pages served during a run of the pipeline
DetailPages ==
    { <<>>, <<DevelX86, MainX86, MainI686>>, <<MainAarch64>> }

DetailResponses == {FetchError} \cup {Page(b) : b \in DetailPages}

DetailHrefs == UNION {{p[i] : i \in 1..Len(p)} : p \in DetailPages}

\* extract_rpm_urls_from_buildinfo, computed once for each of these responses
ResolvedResponses ==
    [r \in DetailResponses |-> extract_rpm_urls_from_buildinfo(r)]

(***************************************************************************)
(* State                                                                   *)
(***************************************************************************)
VARIABLES
    pc,              \* the stage the run is in
    exception,       \* the exception that ended the run, "" when none
    current_url, processed_urls, page_count, version_dict,
    download_urls,   \* generate_download_urls: the items built so far
    urls,            \* download_rpms_all_version: [none, items], next index
    url_no,
    file_paths,
    files,           \* extract_all_rpms: the downloaded paths, next index
    file_no,
    name_list,
    name_no,         \* create_rop_gadgets: next index into names
    lines,           \* create_rop_gadgets: the lines read back
    tree_exists,     \* ../GlibcDownloads exists
    downloaded,      \* files under ../GlibcDownloads/Fedora
    extracted,       \* members of LIBC_PATHS present under Binaries
    staged,          \* <name>_libc.so.6 files present under Binaries
    gadget_files,    \* the gadget files that exist: [path, lines]
    seen_rows,       \* history: catalog rows scraped during the crawl
    listing_fetches, \* history: GETs of listing pages during the crawl
    zero_page_at,    \* history: listing_fetches at the first page without rows
    listing_failed,  \* history: a listing fetch failed
    last_item,       \* history: what happened to the item handled last
    written,         \* history: gadget paths opened for writing in this run
    complete,        \* history: gadget paths whose library was staged and
                     \* on which the gadget tool exited with status zero
    fn_arg, fn_ret   \* argument and result of a function applied in isolation

crawl_vars == <<current_url, processed_urls, page_count, version_dict,
                seen_rows, listing_fetches, zero_page_at>>
resolve_vars == <<download_urls, urls>>
download_vars == <<url_no, file_paths>>
extract_vars == <<files, file_no, name_list>>
gadget_vars == <<name_no, lines, written, complete>>
fs_vars == <<tree_exists, downloaded, extracted, staged, gadget_files>>
fn_vars == <<fn_arg, fn_ret>>

vars == <<pc, exception, crawl_vars, resolve_vars, download_vars, extract_vars,
          gadget_vars, fs_vars, listing_failed, last_item, fn_vars>>

NoList == [none |-> TRUE, items |-> <<>>]
List(items) == [none |-> FALSE, items |-> items]
NoItem == [stage |-> "none"]

PipelineStart ==
    /\ exception = ""
    /\ current_url = base_url
    /\ processed_urls = {}
    /\ page_count = 0
    /\ version_dict = <<>>
    /\ download_urls = <<>>
    /\ urls = NoList
    /\ url_no = 1
    /\ file_paths = <<>>
    /\ files = <<>>
    /\ file_no = 1
    /\ name_list = <<>>
    /\ name_no = 1
    /\ lines = <<>>
    /\ tree_exists = FALSE
    /\ downloaded = {}
    /\ extracted = {}
    /\ staged = {}
    /\ gadget_files = {}
    /\ seen_rows = {}
    /\ listing_fetches = 0
    /\ zero_page_at = 0
    /\ listing_failed = FALSE
    /\ last_item = NoItem
    /\ written = {}
    /\ complete = {}

Init ==
    /\ pc = "scrape"
    /\ PipelineStart
    /\ fn_arg = <<>>
    /\ fn_ret = <<>>

(***************************************************************************)
(* get_glibc_versions_all_pages                                            *)
(***************************************************************************)
\* the rows of a page that carry a version, a release, a disttag and a build id
Rows(response) ==
    IF ~response.ok THEN {}
    ELSE { <<Parsed(response.body[i]).match[1],
             Parsed(response.body[i]).match[3],
             StrToInt(Parsed(response.body[i]).match[2])>> :
           i \in { j \in 1..Len(response.body) :
                     /\ Parsed(response.body[j]).match # NoMatch
                     /\ Parsed(response.body[j]).build_id # "" } }

HasVersionAnchor(response) ==
    /\ response.ok
    /\ \E i \in 1..Len(response.body) :
          Parsed(response.body[i]).match # NoMatch

\* a variant that goes on after a page without version anchors
StopsPagination_never(glibc_found) == FALSE

\* if not glibc_found: break
StopsPagination(glibc_found) == ~glibc_found

\* a variant that does not remember the URL
MarkProcessed_forgets(urls_done, url) == urls_done

\* processed_urls.add(current_url)
MarkProcessed(urls_done, url) == urls_done \cup {url}

\* one pass of the while loop up to the break of line 117, for a crawl cut
\* after max_pages pages
ScrapePageWithin(max_pages) ==
    /\ pc = "scrape"
    /\ page_count < max_pages
    /\ IF current_url = "" \/ current_url \in processed_urls
       THEN /\ pc' = "catalog"
            /\ UNCHANGED <<crawl_vars, listing_failed>>
       ELSE \E response \in ListingResponses :
            LET r == scrape_glibc_versions_from_page(response, current_url,
                                                     version_dict)
            IN /\ page_count' = page_count + 1
               /\ processed_urls' = MarkProcessed(processed_urls, current_url)
               /\ version_dict' = r.dict
               /\ pc' = IF StopsPagination(r.found) THEN "catalog"
                        ELSE "nextlink"
               /\ seen_rows' = seen_rows \cup Rows(response)
               /\ listing_fetches' = listing_fetches + 1
               /\ zero_page_at' =
                      IF zero_page_at = 0 /\ response.ok
                         /\ ~HasVersionAnchor(response)
                      THEN listing_fetches + 1 ELSE zero_page_at
               /\ listing_failed' = (listing_failed \/ ~response.ok)
               /\ UNCHANGED current_url
    /\ UNCHANGED <<exception, resolve_vars, download_vars, extract_vars,
                   gadget_vars, fs_vars, last_item, fn_vars>>

ScrapePage == ScrapePageWithin(MaxPages)

\* the rest of the pass: the second GET, the next URL and the cycle guard,
\* on a site whose second GET returns one of responses
FindNextPageOf(responses) ==
    /\ pc = "nextlink"
    /\ LET joined == JoinedOf[current_url]
           synthesized == SynthesizedOf[current_url]
       IN
       \E response \in responses :
       /\ listing_fetches' = listing_fetches + 1
       /\ listing_failed' = (listing_failed \/ ~response.ok)
       /\ IF ~response.ok
          THEN pc' = "catalog" /\ UNCHANGED current_url
          ELSE LET next_url == NextPageUrl(response.body, joined, synthesized)
               IN
               IF next_url \in processed_urls
               THEN pc' = "catalog" /\ UNCHANGED current_url
               ELSE pc' = "scrape" /\ current_url' = next_url
    /\ UNCHANGED <<exception, processed_urls, page_count, version_dict,
                   seen_rows, zero_page_at, resolve_vars, download_vars,
                   extract_vars, gadget_vars, fs_vars, last_item, fn_vars>>

FindNextPage == FindNextPageOf(ListingResponses)

(***************************************************************************)
(* fetch_rpm_urls_all_versions and generate_download_urls                  *)
(***************************************************************************)
\* the crawl has returned: if not version_dict: return (None)
fetch_rpm_urls_all_versions ==
    /\ pc = "catalog"
    /\ IF version_dict = <<>>
       THEN pc' = "download" /\ urls' = NoList
       ELSE pc' = "resolve" /\ UNCHANGED urls
    /\ current_url' = ""
    /\ processed_urls' = {}
    /\ page_count' = 0
    /\ seen_rows' = {}
    /\ listing_fetches' = 0
    /\ zero_page_at' = 0
    /\ UNCHANGED <<exception, version_dict, download_urls, download_vars,
                   extract_vars, gadget_vars, fs_vars, listing_failed,
                   last_item, fn_vars>>

\* download_urls.append({...})
DownloadItem(key, info, rpm_urls) ==
    [version |-> key[1],
     disttag |-> key[2],
     release |-> info.release,
     full_name |-> info.full_name,
     buildinfo_url |-> urljoin(koji_url,
                               "buildinfo?buildID=" \o info.build_id),
     build_id |-> info.build_id,
     source_page |-> info.source_url,
     rpm_urls |-> rpm_urls]

\* urls.sort(...) and the flat list all_rpm_urls
AllRpmUrls(items) == List(Flatten(SortItems(items, Len(items))))

\* the loop of generate_download_urls goes on while builds are left; after
\* the last one fetch_rpm_urls_all_versions returns the flat list
Collect(items) ==
    IF Len(items) < Len(version_dict)
    THEN /\ download_urls' = items
         /\ UNCHANGED <<pc, urls, version_dict>>
    ELSE /\ urls' = AllRpmUrls(items)
         /\ download_urls' = <<>>
         /\ version_dict' = <<>>
         /\ pc' = "download"

\* one pass of the loop of generate_download_urls; after the last pass the
\* items are sorted and flattened into the list of RPM URLs
generate_download_urls ==
    /\ pc = "resolve"
    /\ \E response \in DetailResponses :
       Collect(Append(download_urls,
                      DownloadItem(version_dict[Len(download_urls) + 1][1],
                                   version_dict[Len(download_urls) + 1][2],
                                   ResolvedResponses[response])))
    /\ UNCHANGED <<exception, current_url, processed_urls, page_count,
                   seen_rows, listing_fetches, zero_page_at, download_vars,
                   extract_vars, gadget_vars, fs_vars, listing_failed,
                   last_item, fn_vars>>

(***************************************************************************)
(* download_rpms_all_version                                               *)
(***************************************************************************)
download_dir == "../GlibcDownloads/Fedora"

\* os.path.join(download_dir, os.path.basename(urlparse(url).path))
LocalPath(url) == download_dir \o "/" \o Basename(urlparse(url).path)

\* LocalPath, computed once for each href of the detail pages
LocalPathOf == [u \in DetailHrefs |-> LocalPath(u)]

\* what one download can do: complete, fail in requests before or after the
\* local file was opened, or fail in open() / write() with OSError
DownloadOutcomes == {"ok", "request_error", "stream_error", "os_error"}

\* except requests.exceptions.RequestException
IsolatedErrors == {"request_error", "stream_error"}

\* os.makedirs and one pass of the loop over urls; iterating None raises
download_rpms_all_version ==
    /\ pc = "download"
    /\ tree_exists' = TRUE
    /\ IF urls.none
       THEN /\ pc' = "raised"
            /\ exception' = "TypeError"
            /\ UNCHANGED <<urls, download_vars, files, downloaded, last_item>>
       ELSE IF url_no > Len(urls.items)
       THEN /\ files' = file_paths
            /\ pc' = "extract"
            /\ urls' = NoList
            /\ url_no' = 1
            /\ file_paths' = <<>>
            /\ UNCHANGED <<exception, downloaded, last_item>>
       ELSE LET full_path == LocalPathOf[urls.items[url_no]] IN
            \E outcome \in DownloadOutcomes :
            /\ last_item' = [stage |-> "download", outcome |-> outcome,
                             path |-> full_path,
                             left |-> Len(urls.items) - url_no]
            /\ downloaded' = IF outcome \in {"ok", "stream_error"}
                             THEN downloaded \cup {full_path}
                             ELSE downloaded
            /\ IF outcome = "ok"
               THEN /\ file_paths' = Append(file_paths, full_path)
                    /\ url_no' = url_no + 1
                    /\ UNCHANGED <<pc, exception>>
               ELSE IF outcome \in IsolatedErrors
               THEN /\ url_no' = url_no + 1
                    /\ UNCHANGED <<pc, exception, file_paths>>
               ELSE /\ pc' = "raised"
                    /\ exception' = "OSError"
                    /\ UNCHANGED <<url_no, file_paths>>
            /\ UNCHANGED <<urls, files>>
    /\ UNCHANGED <<crawl_vars, download_urls, file_no, name_list, gadget_vars,
                   extracted, staged, gadget_files, listing_failed, fn_vars>>

(***************************************************************************)
(* extract_with_rpm2cpio and extract_all_rpms                              *)
(***************************************************************************)
LIBC_PATHS == <<"./usr/lib64/libc.so.6", "./usr/lib/libc.so.6",
                "./lib64/libc.so.6", "./lib/libc.so.6">>

binary_dir == "../GlibcDownloads/Fedora/Binaries"

None == "<None>"

\* s.lstrip('./')
RECURSIVE LStripDotSlash(_)
LStripDotSlash(s) ==
    IF Len(s) > 0 /\ Ch(s, 1) \in {".", "/"}
    THEN LStripDotSlash(SubSeq(s, 2, Len(s)))
    ELSE s

\* os.path.join(output_dir, path.lstrip('./'))
FullPath(output_dir, path) == output_dir \o "/" \o LStripDotSlash(path)

\* FullPath, computed once for each member of LIBC_PATHS
FullPathOf == [m \in {LIBC_PATHS[n] : n \in 1..Len(LIBC_PATHS)} |->
                  FullPath(binary_dir, m)]

ProbedPath(output_dir, path) ==
    IF output_dir = binary_dir THEN FullPathOf[path]
    ELSE FullPath(output_dir, path)

\* for path in LIBC_PATHS: if os.path.exists(full_path): return full_path
RECURSIVE ProbeLoop(_, _, _)
ProbeLoop(output_dir, present, n) ==
    IF n > Len(LIBC_PATHS) THEN None
    ELSE IF ProbedPath(output_dir, LIBC_PATHS[n]) \in present
         THEN ProbedPath(output_dir, LIBC_PATHS[n])
         ELSE ProbeLoop(output_dir, present, n + 1)

\* if cpio.returncode == 0
ExtractionSucceeded(rpm2cpio_rc, cpio_rc) == cpio_rc = 0

\* the value returned when no exception leaves the function; present is the
\* set of files under output_dir once both processes have ended
extract_with_rpm2cpio(tools, rpm2cpio_rc, cpio_rc, output_dir, present) ==
    IF tools = "missing" THEN None
    ELSE IF ExtractionSucceeded(rpm2cpio_rc, cpio_rc)
         THEN ProbeLoop(output_dir, present, 1)
         ELSE None

\* the members of LIBC_PATHS a package may hold
PackageLayouts == { {}, {"./usr/lib64/libc.so.6"}, {"./usr/lib/libc.so.6"} }

ExitCodes == {0, 1}

\* what cpio may have written: everything when both processes exited with
\* status zero, any part of it otherwise
CpioWrites(tools, rpm2cpio_rc, cpio_rc, layout) ==
    IF tools = "missing" THEN {{}}
    ELSE IF rpm2cpio_rc = 0 /\ cpio_rc = 0 THEN {layout}
    ELSE SUBSET layout

\* name + "_libc.so.6", name = os.path.splitext(os.path.basename(f))[0]
StagedName(f) == SplitextRoot(Basename(f)) \o "_libc.so.6"

\* create_libc_filename and StagedName, computed once for each local path
LocalPaths == {LocalPathOf[u] : u \in DetailHrefs}

LibcFilenameOf == [f \in LocalPaths |-> create_libc_filename(f)]

StagedNameOf == [f \in LocalPaths |-> StagedName(f)]

\* os.makedirs and one pass of the loop over files
extract_all_rpms ==
    /\ pc = "extract"
    /\ tree_exists' = TRUE
    /\ IF file_no > Len(files)
       THEN /\ pc' = "gadget"
            /\ files' = <<>>
            /\ file_no' = 1
            /\ UNCHANGED <<exception, name_list, extracted, staged, last_item>>
       ELSE IF LibcFilenameOf[files[file_no]] = ValueError
       THEN /\ pc' = "raised"
            /\ exception' = "ValueError"
            /\ UNCHANGED <<extract_vars, extracted, staged, last_item>>
       ELSE LET staged_name == StagedNameOf[files[file_no]] IN
            \E tools \in {"present", "missing"}, rpm2cpio_rc \in ExitCodes,
               cpio_rc \in ExitCodes, layout \in PackageLayouts,
               copy_ok \in BOOLEAN :
            \E wrote \in CpioWrites(tools, rpm2cpio_rc, cpio_rc, layout) :
            LET present == extracted \cup {FullPathOf[m] : m \in wrote}
                result == extract_with_rpm2cpio(tools, rpm2cpio_rc, cpio_rc,
                                                binary_dir, present)
            IN /\ extracted' = present
               /\ file_no' = file_no + 1
               /\ IF result # None
                  THEN /\ name_list' = Append(name_list, staged_name)
                       /\ staged' = IF copy_ok
                                    THEN staged \cup {staged_name}
                                    ELSE staged
                  ELSE UNCHANGED <<name_list, staged>>
               /\ last_item' = [stage |-> "extract", tools |-> tools,
                                rpm2cpio_rc |-> rpm2cpio_rc,
                                cpio_rc |-> cpio_rc,
                                candidate |-> (ProbeLoop(binary_dir, present, 1)
                                               # None),
                                result |-> result,
                                wrote |-> {FullPathOf[m] : m \in wrote},
                                left |-> Len(files) - file_no]
               /\ UNCHANGED <<pc, exception, files>>
    /\ UNCHANGED <<crawl_vars, resolve_vars, download_vars, gadget_vars,
                   downloaded, gadget_files, listing_failed, fn_vars>>

(***************************************************************************)
(* create_rop_gadgets                                                      *)
(***************************************************************************)
gadgets_dir == "../Gadgets/Fedora"

IndexError == "<IndexError>"

\* name.split(".")[3].replace("_libc", ""), name.split('-')[1],
\* name.split('.')[2] and the gadget path built from them
GadgetPath(name) ==
    IF Len(Split(name, ".")) < 4 \/ Len(Split(name, "-")) < 2 THEN IndexError
    ELSE LET arch == Replace(Split(name, ".")[4], "_libc", "")
             glibc_version == Split(name, "-")[2]
             fedora_version == Split(name, ".")[3]
         IN gadgets_dir \o "/" \o arch \o "/" \o "glibc_" \o glibc_version
            \o "_" \o fedora_version \o "_" \o arch \o ".txt"

\* GadgetPath, computed once for each staged name
GadgetPathOf == [n \in {StagedNameOf[f] : f \in LocalPaths} |-> GadgetPath(n)]

\* what the gadget tool prints during a run of the pipeline
ToolOutputs ==
    { <<>>,
      <<"[INFO] Load gadgets from cache", "[LOAD] loading... 100%",
        "0x0002a3e5: pop rdi; ret;">> }

\* StripNoise, computed once for each of these outputs
StrippedOutputs == [o \in ToolOutputs |-> StripNoise(o)]

\* ropper exits with status zero, exits with another status, or is not installed
ToolRuns == {"ok", "nonzero", "missing"}

WriteFile(fs, path, content) ==
    {g \in fs : g.path # path} \cup {[path |-> path, lines |-> content]}

\* os.path.join(binary_dir, name)
StagedPath(name) == binary_dir \o "/" \o name

transient_root == "../GlibcDownloads"

\* a variant that removes every path it is given
rmtree_everything(paths, root) == {}

\* shutil.rmtree(binary_abs_path): of paths, those left once root is removed
rmtree(paths, root) ==
    {p \in paths : p # root /\ ~StartsWith(p, root \o "/")}

\* one pass of the loop over names; after the last pass, the cleanup
create_rop_gadgets ==
    /\ pc = "gadget"
    /\ IF name_no > Len(name_list)
       THEN /\ IF ~tree_exists
               THEN /\ pc' = "raised"
                    /\ exception' = "FileNotFoundError"
                    /\ UNCHANGED fs_vars
               ELSE /\ pc' = "done"
                    /\ tree_exists' = FALSE
                    /\ downloaded' = rmtree(downloaded, transient_root)
                    /\ extracted' = rmtree(extracted, transient_root)
                    /\ staged' =
                          {n \in staged :
                             rmtree({StagedPath(n)}, transient_root) # {}}
                    /\ gadget_files' =
                          {g \in gadget_files :
                             rmtree({g.path}, transient_root) # {}}
                    /\ UNCHANGED exception
            /\ UNCHANGED <<gadget_vars, last_item>>
       ELSE IF GadgetPathOf[name_list[name_no]] = IndexError
       THEN /\ pc' = "raised"
            /\ exception' = "IndexError"
            /\ UNCHANGED <<gadget_vars, fs_vars, last_item>>
       ELSE LET name == name_list[name_no]
                gadget_path == GadgetPathOf[name]
            IN
            \E run \in ToolRuns, output \in ToolOutputs :
               /\ written' = written \cup {gadget_path}
               /\ last_item' = [stage |-> "gadget", run |-> run,
                                path |-> gadget_path,
                                left |-> Len(name_list) - name_no]
               /\ IF run = "ok"
                  THEN /\ lines' = output
                       /\ gadget_files' = WriteFile(gadget_files, gadget_path,
                                                    StrippedOutputs[output])
                       /\ complete' = IF name \in staged
                                      THEN complete \cup {gadget_path}
                                      ELSE complete
                       /\ name_no' = name_no + 1
                       /\ UNCHANGED <<pc, exception>>
                  ELSE /\ gadget_files' =
                              WriteFile(gadget_files, gadget_path,
                                        IF run = "missing" THEN <<>> ELSE output)
                       /\ pc' = "raised"
                       /\ exception' = IF run = "missing"
                                       THEN "FileNotFoundError"
                                       ELSE "CalledProcessError"
                       /\ UNCHANGED <<lines, complete, name_no>>
               /\ UNCHANGED <<tree_exists, downloaded, extracted, staged>>
    /\ UNCHANGED <<crawl_vars, resolve_vars, download_vars, extract_vars,
                   listing_failed, fn_vars>>

Next ==
    \/ ScrapePage
    \/ FindNextPage
    \/ fetch_rpm_urls_all_versions
    \/ generate_download_urls
    \/ download_rpms_all_version
    \/ extract_all_rpms
    \/ create_rop_gadgets

Spec == Init /\ [][Next]_vars

(***************************************************************************)
(* Functions applied in isolation: fn_arg is the argument, fn_ret the      *)
(* result; all other variables keep the values of a run not yet started    *)
(***************************************************************************)
pipeline_vars == <<exception, crawl_vars, resolve_vars, download_vars,
                   extract_vars, gadget_vars, fs_vars, listing_failed,
                   last_item>>

\* hrefs a detail page may hold: main packages, subpackages, a main package
\* below a directory named after a subpackage, other architectures, other files
StaticDirX86 == RpmHref("packages/glibc-static/2.39/3.fc40", "x86_64", "glibc", "2.39-3.fc40", "x86_64")

PageHrefs ==
    { MainX86, MainI686, MainAarch64, DevelX86, StaticDirX86,
      RpmHref("packages/glibc/2.39/5.fc40", "x86_64", "glibc", "2.39-5.fc40", "x86_64"),
      RpmHref("utils/glibc/2.39/3.fc40", "i686", "glibc", "2.39-3.fc40", "i686"),
      RpmHref("packages/glibc/2.39/3.fc40", "x86_64", "glibc-debuginfo", "2.39-3.fc40", "x86_64"),
      RpmHref("packages/glibc/2.39/3.fc40", "s390x", "glibc", "2.39-3.fc40", "s390x"),
      RpmHref("packages/glibc/2.39/3.fc40", "x86_64", "glibc", "2.39-3.fc40", "i686"),
      RpmHref("packages/glibc/2.39/3.fc40", "src", "glibc", "2.39-3.fc40", "src"),
      "buildinfo?buildID=2403" }

ResolveInputs == {FetchError} \cup {Page(b) : b \in SeqsUpTo(PageHrefs, MaxLinks)}

InitResolve ==
    /\ pc = "call_resolve"
    /\ PipelineStart
    /\ fn_arg \in ResolveInputs
    /\ fn_ret = <<>>

\* rpm_urls = extract_rpm_urls_from_buildinfo(buildinfo_url)
ResolveDetailPage ==
    /\ pc = "call_resolve"
    /\ fn_ret' = extract_rpm_urls_from_buildinfo(fn_arg)
    /\ pc' = "ret_resolve"
    /\ UNCHANGED <<fn_arg, pipeline_vars>>

SpecResolve == InitResolve /\ [][ResolveDetailPage]_vars

\* the paths create_libc_filename is called with: a directory and a file name
PackageDirs ==
    { "", "./", "../GlibcDownloads/Fedora/", "/srv/mirror/fedora/",
      "/srv/glibc-2.38/", "/var/cache/v1.2/" }

PackageFiles ==
    { "glibc-2.39-2.fc40.x86_64.rpm", "glibc-2.39-2.fc40.i686.rpm",
      "glibc-2.39-2.fc40.aarch64.rpm", "glibc-2.39-11.fc40.x86_64.rpm",
      "glibc-2.40-1.fc41.x86_64.rpm", "glibc-2.28.9000-2.fc30.x86_64.rpm",
      "glibc-2.5-1.fc7.i686.rpm", "glibc-devel-2.39-2.fc40.x86_64.rpm",
      "glibc.rpm", "glibc-239-2.rpm" }

NamingInputs == {d \o f : d \in PackageDirs, f \in PackageFiles}

InitNaming ==
    /\ pc = "call_naming"
    /\ PipelineStart
    /\ fn_arg \in NamingInputs
    /\ fn_ret = <<>>

\* create_libc_filename(rpm_file), as in the cpio command line
NameLibrary ==
    /\ pc = "call_naming"
    /\ fn_ret' = create_libc_filename(fn_arg)
    /\ pc' = "ret_naming"
    /\ UNCHANGED <<fn_arg, pipeline_vars>>

SpecNaming == InitNaming /\ [][NameLibrary]_vars

\* lines the gadget tool may print
OutputLines ==
    { "[INFO] Load gadgets from cache", "[load] loading... 100%",
      "0x0002a3e5: pop rdi; ret;", "0x00045eb0: pop rax; ret; [Info]",
      "LOAD INFO [ ]", "0x00029139: ret;" }

NoiseInputs == SeqsUpTo(OutputLines, MaxLines)

InitNoise ==
    /\ pc = "call_noise"
    /\ PipelineStart
    /\ fn_arg \in NoiseInputs
    /\ fn_ret = <<>>

\* lines = f.readlines() and the rewrite of the gadget file
RewriteGadgetFile ==
    /\ pc = "call_noise"
    /\ fn_ret' = StripNoise(fn_arg)
    /\ pc' = "ret_noise"
    /\ UNCHANGED <<fn_arg, pipeline_vars>>

SpecNoise == InitNoise /\ [][RewriteGadgetFile]_vars

(***************************************************************************)
(* Claims                                                                  *)
(***************************************************************************)
RowsOfKey(key) == {row \in seen_rows : <<row[1], row[2]>> = key}

\* C1: when the crawl has ended, the result map holds exactly one entry for
\* every (version, disttag) key of a catalog row seen on any page and no
\* entry for any other key, and the release of the entry is the minimum of
\* the releases of the rows seen for its key.
C1_DedupKeepsMinimumRelease ==
    pc = "catalog" =>
        /\ \A i, j \in 1..Len(version_dict) :
              version_dict[i][1] = version_dict[j][1] => i = j
        /\ \A row \in seen_rows :
              \E i \in 1..Len(version_dict) :
                 version_dict[i][1] = <<row[1], row[2]>>
        /\ \A i \in 1..Len(version_dict) :
              /\ \E row \in RowsOfKey(version_dict[i][1]) :
                    row[3] = version_dict[i][2].release
              /\ \A row \in RowsOfKey(version_dict[i][1]) :
                    version_dict[i][2].release <= row[3]

\* C1 witness: a crawl over two pages has ended having seen two rows of one
\* key with different releases.
C1_Witness ==
    /\ pc = "catalog"
    /\ page_count = 2
    /\ \E r1, r2 \in seen_rows :
          /\ <<r1[1], r1[2]>> = <<r2[1], r2[2]>>
          /\ r1[3] < r2[3]

\* C2: once a listing page without any anchor matching the version pattern
\* has been scraped, the crawl has ended: no page has been fetched since
\* that page, neither for a next link nor as a listing page, and the map
\* returned holds an entry for every catalog row seen on the earlier pages.
C2_EmptyPageStopsCrawl ==
    zero_page_at # 0 =>
        /\ pc = "catalog"
        /\ listing_fetches = zero_page_at
        /\ \A row \in seen_rows :
              \E i \in 1..Len(version_dict) :
                 version_dict[i][1] = <<row[1], row[2]>>

\* C2 witness: the second listing page had no matching anchor, after a first
\* page that left entries in the map.
C2_Witness ==
    /\ zero_page_at = 3
    /\ page_count = 2
    /\ version_dict # <<>>

ExcludedSubstrings ==
    {"debuginfo", "debugsource", "devel", "headers", "static", "utils"}

\* C3: every key of the mapping extract_rpm_urls_from_buildinfo returns is
\* one of aarch64, i686, x86_64, and no URL of the mapping contains an
\* excluded substring.
C3_ArchAndPackageFilter ==
    pc = "ret_resolve" =>
        \A i \in 1..Len(fn_ret) :
           /\ fn_ret[i][1] \in {"aarch64", "i686", "x86_64"}
           /\ \A x \in ExcludedSubstrings : ~Contains(fn_ret[i][2], x)

\* C3 witness: the page holds a link with an excluded substring whose path
\* segment and file name match x86_64, then a main package link of x86_64,
\* and the mapping selects the latter.
C3_Witness ==
    /\ pc = "ret_resolve"
    /\ fn_arg = Page(<<StaticDirX86, MainX86>>)
    /\ fn_ret = <<<<"x86_64", MainX86>>>>

\* C4 as stated: for a file name holding the version token 2.39-2,
\* create_libc_filename returns libc-2.39-2.so.
C4_NameHoldsRelease ==
    (pc = "ret_naming" /\ Contains(fn_arg, "glibc-2.39-2."))
        => fn_ret = "libc-2.39-2.so"

\* C4 amended: for a package file glibc-2.39-2.<rest>, given as a file name
\* or as a path whose directories hold no digit, create_libc_filename returns
\* exactly libc-2.39.so: the release is no part of the name, and neither is
\* any fragment of the path.
C4_NameHoldsVersionOnly ==
    (/\ pc = "ret_naming"
     /\ StartsWith(Basename(fn_arg), "glibc-2.39-2.")
     /\ \A i \in 1..(Len(fn_arg) - Len(Basename(fn_arg))) :
           ~IsDigit(Ch(fn_arg, i)))
        => fn_ret = "libc-2.39.so"

\* C4 witness: the name derived from a path with directories.
C4_Witness ==
    /\ pc = "ret_naming"
    /\ fn_arg = "../GlibcDownloads/Fedora/glibc-2.39-2.fc40.x86_64.rpm"
    /\ fn_ret = "libc-2.39.so"

\* the line holds "[" word "]" in some letter case; word is given in upper
\* and in lower case
HoldsMarker(line, upper, lower) ==
    \E j \in 1..(Len(line) - 5) :
       /\ Ch(line, j) = "["
       /\ \A k \in 1..4 : Ch(line, j + k) \in {Ch(upper, k), Ch(lower, k)}
       /\ Ch(line, j + 5) = "]"

Survivors(raw) ==
    {i \in 1..Len(raw) :
        ~HoldsMarker(raw[i], "LOAD", "load") /\ ~HoldsMarker(raw[i], "INFO", "info")}

\* C5: the rewritten file holds exactly the lines of the raw output that
\* hold neither [LOAD] nor [INFO] in any letter case, in their order: the
\* k-th such line of the raw output is the k-th line of the file.
C5_NoiseLinesRemoved ==
    pc = "ret_noise" =>
        /\ Len(fn_ret) = Cardinality(Survivors(fn_arg))
        /\ \A i \in Survivors(fn_arg) :
              fn_ret[Cardinality({j \in Survivors(fn_arg) : j <= i})] = fn_arg[i]

\* C5 witness: a raw output with a lower-case marker line between two
\* different surviving lines.
C5_Witness ==
    /\ pc = "ret_noise"
    /\ fn_arg = <<"0x0002a3e5: pop rdi; ret;", "[load] loading... 100%",
                  "0x00029139: ret;">>
    /\ fn_ret = <<"0x0002a3e5: pop rdi; ret;", "0x00029139: ret;">>

\* C6 as stated: at every point of a run, every gadget file that exists is
\* the output of a gadget tool run that exited with status zero on a library
\* that was extracted and copied to its staged name.
C6_NoPartialOutput ==
    \A g \in gadget_files : g.path \in complete

\* C7 as stated: a download that fails, with a network error or with an I/O
\* error on the local file, does not end the run: the later URLs are still
\* attempted.
C7_DownloadFailureIsolated ==
    (last_item.stage = "download" /\ last_item.outcome # "ok")
        => pc # "raised"

\* C8 as stated: after a failed listing fetch the run goes through the
\* download stage without raising on the result of the crawl.
C8_FetchFailureNeverAborts ==
    listing_failed => ~(pc = "raised" /\ exception = "TypeError")

\* C9: when create_rop_gadgets has completed without error, nothing is left
\* of the download and staging tree, and every gadget file written during the
\* run exists.
C9_CleanupKeepsGadgets ==
    pc = "done" =>
        /\ ~tree_exists
        /\ downloaded = {}
        /\ extracted = {}
        /\ staged = {}
        /\ \A p \in written : \E g \in gadget_files : g.path = p

\* C9 witness: a run has completed after it downloaded a package, staged a
\* library and wrote a gadget file with content.
C9_Witness ==
    /\ pc = "done"
    /\ written # {}
    /\ \E g \in gadget_files : g.path \in complete /\ g.lines # <<>>

\* C10 as stated: when a tool is missing, either process exits with a
\* non-zero status, or no candidate path exists after the extraction,
\* extract_with_rpm2cpio returns the failure signal.
C10_ExtractionFailureSignalled ==
    (/\ last_item.stage = "extract"
     /\ \/ last_item.tools = "missing"
        \/ last_item.rpm2cpio_rc # 0
        \/ last_item.cpio_rc # 0
        \/ ~last_item.candidate)
        => last_item.result = None

\* C11 as stated: a library path is returned only when both the converter
\* and the selective extraction have exited with status zero.
C11_BothExitStatusesChecked ==
    (last_item.stage = "extract" /\ last_item.result # None)
        => (last_item.rpm2cpio_rc = 0 /\ last_item.cpio_rc = 0)

(***************************************************************************)
(* The next page URL in isolation: fn_arg is the URL of the page and its   *)
(* anchors as the second GET returned them, fn_ret the next URL            *)
(***************************************************************************)
NextPageInputs ==
    {[current_url |-> u, body |-> b] :
        u \in ListingUrls, b \in SeqsUpTo(ListingAnchors, MaxAnchors)}

InitNextPage ==
    /\ pc = "call_next"
    /\ PipelineStart
    /\ fn_arg \in NextPageInputs
    /\ fn_ret = <<>>

\* lines 125-154: next_url from the anchors of the page, else constructed
ComputeNextUrl ==
    /\ pc = "call_next"
    /\ fn_ret' = NextPageUrl(fn_arg.body, JoinedOf[fn_arg.current_url],
                             SynthesizedOf[fn_arg.current_url])
    /\ pc' = "ret_next"
    /\ UNCHANGED <<fn_arg, pipeline_vars>>

SpecNextPage == InitNextPage /\ [][ComputeNextUrl]_vars

\* the visible text holds "next" in some letter case, or a forward arrow
LooksLikeNext(text) ==
    \/ \E j \in 1..(Len(text) - 3) :
          /\ Ch(text, j) \in {"N", "n"}
          /\ Ch(text, j + 1) \in {"E", "e"}
          /\ Ch(text, j + 2) \in {"X", "x"}
          /\ Ch(text, j + 3) \in {"T", "t"}
    \/ \E j \in 1..(Len(text) - 1) : SubSeq(text, j, j + 1) = ">>"

FirstNextAnchor(body) ==
    CHOOSE n \in 1..Len(body) :
       /\ LooksLikeNext(body[n].text)
       /\ \A k \in 1..(n - 1) : ~LooksLikeNext(body[k].text)

\* C12 as stated: when some anchor of the page shows "next" in any letter
\* case or a forward arrow, the next URL is the href of the first such
\* anchor joined to the URL of the page; the constructed URL is the next
\* URL only when no anchor does.
C12_FollowsFirstNextAnchor ==
    pc = "ret_next" =>
        IF \E n \in 1..Len(fn_arg.body) : LooksLikeNext(fn_arg.body[n].text)
        THEN fn_ret = urljoin(fn_arg.current_url,
                              fn_arg.body[FirstNextAnchor(fn_arg.body)].href)
        ELSE fn_ret = SynthesizedNextUrl(fn_arg.current_url)

\* the link qualifies for the architecture: a glibc rpm link without excluded
\* substring, with the architecture as a path segment and in the file name
Qualifies(href, arch) ==
    /\ IsGlibcRpmLink(href)
    /\ Contains(href, "/" \o arch \o "/")
    /\ MainPackageSearch(href, arch)

FirstQualifying(body, arch) ==
    CHOOSE n \in 1..Len(body) :
       /\ Qualifies(body[n], arch)
       /\ \A k \in 1..(n - 1) : ~Qualifies(body[k], arch)

\* C13: the mapping extract_rpm_urls_from_buildinfo returns has one entry
\* for every target architecture for which the page holds a qualifying link,
\* the first such link in page order, and no entry for any other
\* architecture.
C13_FirstMatchWins ==
    pc = "ret_resolve" =>
        /\ \A i, j \in 1..Len(fn_ret) : fn_ret[i][1] = fn_ret[j][1] => i = j
        /\ \A arch \in {"aarch64", "i686", "x86_64"} :
              IF fn_arg.ok /\ \E n \in 1..Len(fn_arg.body) :
                                 Qualifies(fn_arg.body[n], arch)
              THEN \E i \in 1..Len(fn_ret) :
                      fn_ret[i] = <<arch, fn_arg.body[FirstQualifying(fn_arg.body,
                                                                       arch)]>>
              ELSE \A i \in 1..Len(fn_ret) : fn_ret[i][1] # arch

\* C13 witness: two different links of the page qualify for x86_64 and the
\* mapping holds the first of them and nothing else.
C13_Witness ==
    /\ pc = "ret_resolve"
    /\ fn_arg.ok
    /\ Len(fn_arg.body) = 2
    /\ fn_arg.body[1] # fn_arg.body[2]
    /\ Qualifies(fn_arg.body[1], "x86_64")
    /\ Qualifies(fn_arg.body[2], "x86_64")
    /\ fn_ret = <<<<"x86_64", fn_arg.body[1]>>>>

(***************************************************************************)
(* The crawl of a site whose pages all carry a next link: the second GET   *)
(* returns a page with a forward-arrow anchor, or fails                    *)
(***************************************************************************)
LinkedResponses ==
    {r \in ListingResponses :
        r.ok => \E n \in 1..Len(r.body) : Parsed(r.body[n]).is_next}

\* the URLs such a crawl can be at: the base URL and the targets of the links
LinkedUrls ==
    {base_url} \cup {JoinedOf[u][h] : u \in ListingUrls, h \in NextHrefs}

\* no cut: the crawl has scraped every URL of the site before it gets there
ScrapeLinkedSite == ScrapePageWithin(Cardinality(LinkedUrls) + 1)

FollowLinkedSite == FindNextPageOf(LinkedResponses)

NextLinkedSite == ScrapeLinkedSite \/ FollowLinkedSite

\* the loop is sequential code: each pass is taken once the one before ended
SpecLinkedSite ==
    Init /\ [][NextLinkedSite]_vars /\ WF_vars(NextLinkedSite)

C15_ReturnsOwnLibrary ==
    (/\ last_item.stage = "extract"
     /\ last_item.rpm2cpio_rc = 0
     /\ last_item.cpio_rc = 0
     /\ last_item.result # None)
        => last_item.result \in last_item.wrote

(***************************************************************************)
(* The constructed next URL in isolation, step after step: fn_arg is the   *)
(* current URL, fn_ret the URL constructed from it, page_count the steps   *)
(***************************************************************************)
\* listing URLs with a buildStart parameter, among them base_url
OffsetUrls ==
    {koji_url \o "packageinfo?buildStart=" \o start \o "&packageID=57"
       \o order \o tag \o fragment :
        start \in {"0", "50", "100", "950"},
        order \in {"", "&buildOrder=-completion_time"},
        tag \in {"", "&tagOrder=name&tagStart=0"},
        fragment \in {"", "#buildlist"}}

InitConstruct ==
    /\ pc = "call_construct"
    /\ PipelineStart
    /\ fn_arg \in OffsetUrls
    /\ fn_ret = <<>>

\* lines 139-154 on a page without next link; the next pass starts from the
\* URL constructed in this one
ConstructNextUrl ==
    /\ page_count < MaxSteps
    /\ page_count' = page_count + 1
    /\ \/ pc = "call_construct" /\ fn_arg' = fn_arg
       \/ pc = "ret_construct" /\ fn_arg' = fn_ret
    /\ fn_ret' = SynthesizedNextUrl(fn_arg')
    /\ pc' = "ret_construct"
    /\ UNCHANGED <<exception, current_url, processed_urls, version_dict,
                   seen_rows, listing_fetches, zero_page_at, resolve_vars,
                   download_vars, extract_vars, gadget_vars, fs_vars,
                   listing_failed, last_item>>

SpecConstruct == InitConstruct /\ [][ConstructNextUrl]_vars

\* the two URLs differ in the value of buildStart only, by the page size
OnlyOffsetMoved(from, to, from_query, to_query) ==
    /\ to.scheme = from.scheme
    /\ to.netloc = from.netloc
    /\ to.path = from.path
    /\ to.fragment = from.fragment
    /\ Len(to_query) = Len(from_query)
    /\ \A i \in 1..Len(from_query) :
          /\ i <= Len(to_query)
          /\ to_query[i][1] = from_query[i][1]
          /\ IF from_query[i][1] = "buildStart"
             THEN to_query[i][2] =
                     <<IntToStr(StrToInt(from_query[i][2][1]) + 50)>>
             ELSE to_query[i][2] = from_query[i][2]

\* C16 as stated: the constructed URL differs from the current URL only in
\* buildStart, which is greater by 50; every other query parameter keeps its
\* value, from the base URL on and after any number of steps.
C16_OnlyOffsetChanges ==
    pc = "ret_construct" =>
        OnlyOffsetMoved(urlparse(fn_arg), urlparse(fn_ret),
                        parse_qs(urlparse(fn_arg).query),
                        parse_qs(urlparse(fn_ret).query))

(***************************************************************************)
(* update_sources.extract_options_from_files on the gadget files that      *)
(* create_rop_gadgets names: fn_arg is the staged library and what it was  *)
(* built from, fn_ret the groups the pattern recovers from the file name   *)
(***************************************************************************)
\* pattern.match(filename), pattern ^glibc_([^_]+)_([^_]+)_([^_]+)\.txt$ :
\* the three groups, or NoMatch
FilenameMatch(filename, groups) ==
    IF /\ StartsWith(filename, "glibc_")
       /\ EndsWith(filename, ".txt")
       /\ Len(filename) > 10
       /\ Len(groups) = 3
       /\ \A i \in 1..Len(groups) : Len(groups[i]) > 0
    THEN groups
    ELSE NoMatch

\* m = pattern.match(filename): the text between "glibc_" and ".txt" holds
\* exactly two underscores
extract_options_from_files(filename) ==
    FilenameMatch(filename, Split(SubSeq(filename, 7, Len(filename) - 4), "_"))

\* the staged libraries of main packages, by version, release, distro
\* version and architecture
StagedLibraries ==
    {[glibc_version |-> v, distro_version |-> d, arch |-> a,
      name |-> "glibc-" \o v \o "-" \o r \o "." \o d \o "." \o a
               \o "_libc.so.6"] :
        v \in {"2.28", "2.39", "2.40", "2.41"}, r \in {"1", "3"},
        d \in {"fc30", "fc40", "fc41"},
        a \in {"aarch64", "i686", "x86_64"}}

InitOptions ==
    /\ pc = "call_options"
    /\ PipelineStart
    /\ fn_arg \in StagedLibraries
    /\ fn_ret = <<>>

\* the gadget file create_rop_gadgets writes for the library, listed and
\* matched by extract_options_from_files
ReadGadgetFileName ==
    /\ pc = "call_options"
    /\ fn_ret' = extract_options_from_files(Basename(GadgetPath(fn_arg.name)))
    /\ pc' = "ret_options"
    /\ UNCHANGED <<fn_arg, pipeline_vars>>

SpecOptions == InitOptions /\ [][ReadGadgetFileName]_vars

\* C17 as stated: for every glibc version, distro version and architecture
\* the name of the gadget file is matched by the pattern of
\* extract_options_from_files, which recovers the glibc version and the
\* distro version.
C17_ConsumerRecoversVersions ==
    pc = "ret_options" =>
        /\ fn_ret # NoMatch
        /\ fn_ret[1] = fn_arg.glibc_version
        /\ fn_ret[2] = fn_arg.distro_version

====
